---- MODULE Spec2Model ----
(***************************************************************************)
(* Model of resize/main.c (the resize2fs driver): main() as a sequence of  *)
(* steps, one per collaborator call or gate, with the collaborators'       *)
(* results (mount probe, flush, ext2fs_open, device size probe, resize_fs) *)
(* chosen nondeterministically.  The command line has already been split   *)
(* by getopt; the usage() exits (-h, no device, too many arguments) are    *)
(* not modelled.                                                           *)
(***************************************************************************)
EXTENDS Integers, Sequences, FiniteSets, TLC

\* ---- bounds ------------------------------------------------------------
\* largest block count of a filesystem or a device; a size argument may
\* ask for one block more
MaxBlocks == 2
MaxTime == 1

\* progress events: how many the engine sends, and the largest cur and max
MaxEvents == 5
MaxCount == 2

Blocks == 0..(MaxBlocks + 1)
Times == 0..MaxTime
Counts == 0..MaxCount

\* ---- values from headers that main.c uses --------------------------------
\* A feature word is modelled as the set of the bit positions that are set.
\* main.c reads a word only through (word & ~mask), so the bits of a word
\* fall into classes by the masks that hold them; one bit of each class that
\* these masks make stands for the class: bit 0 (sparse_super) is in the
\* ro-compat mask only, bit 1 is in neither mask.
EXT2_LIB_FEATURE_COMPAT_SUPP == {}
EXT2_LIB_FEATURE_RO_COMPAT_SUPP == {0}
FeatureBits == {0, 1}
EXT2_MF_MOUNTED == "MOUNTED"
RESIZE_DEBUG_IO == "DEBUG_IO"
RESIZE_PERCENT_COMPLETE == "PERCENT_COMPLETE"
ResizeFlagBits == {RESIZE_DEBUG_IO, RESIZE_PERCENT_COMPLETE}
MountFlagBits == {EXT2_MF_MOUNTED}

\* pass identifiers of the engine (resize2fs.h), and one that is none of them
E2_RSZ_EXTEND_ITABLE_PASS == 1
E2_RSZ_BLOCK_RELOC_PASS == 2
E2_RSZ_INODE_SCAN_PASS == 3
E2_RSZ_INODE_REF_UPD_PASS == 4
E2_RSZ_MOVE_ITABLE_PASS == 5
UnknownPass == 0
PassIds == {E2_RSZ_EXTEND_ITABLE_PASS, E2_RSZ_BLOCK_RELOC_PASS, UnknownPass}

NoFs == "nofs"
Uninit == "uninit"
\* an int left unset, a size argument strtoul does not consume to its end,
\* and the contents of a mount_flags word that was never written
NoValue == -2
BadSize == -1
Garbage == {"GARBAGE"}
Running == -1

VARIABLES
    pc,          \* position in main
    force,       \* -f
    flush,       \* -F
    flags,       \* -d / -p : set of resize flag bits
    hasSize,     \* a [new-size] argument follows the device (optind < argc)
    sizeArg,     \* what strtoul makes of that argument, or BadSize
    new_size,    \* blk_t new_size
    max_size,    \* blk_t max_size
    mount_retval,\* retval of ext2fs_check_if_mounted
    mount_flags, \* mount_flags written by ext2fs_check_if_mounted
    io_ptr,      \* the io manager chosen
    disk,        \* the superblock stored on the device
    fs,          \* fs->super of the opened filesystem, or NoFs
    fsOpen,      \* the handle is open (ext2fs_open succeeded, not closed)
    retval,      \* errcode_t retval of main
    engineTarget,\* second argument of resize_fs
    engineCallback, \* fourth argument of resize_fs is resize_progress_func
    log,         \* the calls and gates executed so far, in order
    reported,    \* the diagnostics printed so far, in order
    exitCode,    \* process exit status, Running while main runs
    prog_data,   \* rfs->prog_data: 0, or the indicator it points to
    meters,      \* the indicators ext2fs_progress_init created, in order
    misuse,      \* calls made on an indicator that is not open
    closes,      \* number of ext2fs_progress_close calls
    updates,     \* number of ext2fs_progress_update calls
    last,        \* the last call of resize_progress_func: arguments, calls
                 \* it made, return value
    degraded,    \* the creation of the current pass's indicator failed
    nEvents,     \* number of calls of resize_progress_func so far
    script       \* position of the engine in its passes (SpecPasses)

mainvars == << pc, force, flush, flags, hasSize, sizeArg, new_size, max_size,
               mount_retval, mount_flags, io_ptr, disk, fs, fsOpen, retval,
               engineTarget, engineCallback, log, reported, exitCode >>

pvars == << prog_data, meters, misuse, closes, updates, last, degraded,
            nEvents, script >>

vars == << mainvars, pvars >>

Superblocks ==
    [ s_blocks_count : 1..MaxBlocks,
      s_lastcheck : Times,
      s_mtime : Times,
      s_feature_compat : SUBSET FeatureBits,
      s_feature_incompat : SUBSET FeatureBits,
      s_feature_ro_compat : SUBSET FeatureBits ]

\* ---- the conditions of main, as the code writes them ---------------------

\* mask & ~supp
Unsupp(mask, supp) == mask \ supp

IsMounted_Never(mf) == FALSE

\* main.c:103  (mount_flags & EXT2_MF_MOUNTED)
IsMounted(mf) == EXT2_MF_MOUNTED \in mf

\* main.c:238-239
FeatureGateFails(s) ==
    \/ Unsupp(s.s_feature_compat, EXT2_LIB_FEATURE_COMPAT_SUPP) # {}
    \/ Unsupp(s.s_feature_incompat, EXT2_LIB_FEATURE_RO_COMPAT_SUPP) # {}

FlushFails_Never(r) == FALSE

\* main.c:202, 207, 213-215: open() < 0, ioctl() < 0, or no BLKFLSBUF
FlushFails(r) == r \in {"open_failed", "ioctl_failed", "unsupported"}

\* main.c:257-258
ResolveSize(ns, ms) == IF ns = 0 THEN ms ELSE ns

CapacityGateFails_OffByOne(f, ns, ms) == ~f /\ ns > ms + 1

CapacityGateFails_IgnoresForce(f, ns, ms) == ns > ms

\* main.c:259
CapacityGateFails(f, ns, ms) == ~f /\ ns > ms

IsNoOp_Never(ns, s) == FALSE

\* main.c:266
IsNoOp(ns, s) == ns = s.s_blocks_count

NeedsCheck_Never(f, s) == FALSE

NeedsCheck_Swapped(f, s) == ~f /\ s.s_mtime < s.s_lastcheck

\* main.c:271
NeedsCheck(f, s) == ~f /\ s.s_lastcheck < s.s_mtime

\* main.c:277-278
UsesCallback(fl) == RESIZE_PERCENT_COMPLETE \in fl

\* exit(code)
Exit(code) == /\ pc' = "done"
              /\ exitCode' = code

\* ---- resize_progress_func, main.c:39-89 -----------------------------------

NoEvent == [ pass |-> UnknownPass, cur |-> 0, max |-> 0, before |-> 0,
             ops |-> << >>, ret |-> 0, initFailed |-> FALSE ]

NoScript == [ phase |-> "idle", pass |-> UnknownPass, max |-> 0, ok |-> FALSE,
              passes |-> 0, okPasses |-> 0, okEvents |-> 0, mids |-> 0 ]

\* rfs->prog_data is null before the engine's first callback
ProgressInit ==
    /\ prog_data = 0
    /\ meters = << >>
    /\ misuse = {}
    /\ closes = 0
    /\ updates = 0
    /\ last = NoEvent
    /\ degraded = FALSE
    /\ nEvents = 0
    /\ script = NoScript

Init ==
    /\ pc = "parse_size"
    /\ force \in BOOLEAN
    /\ flush \in BOOLEAN
    /\ flags \in SUBSET ResizeFlagBits
    /\ hasSize \in BOOLEAN
    /\ sizeArg \in IF hasSize THEN Blocks \cup {BadSize} ELSE {NoValue}
    /\ new_size = 0
    /\ max_size = 0
    /\ mount_retval = 0
    /\ mount_flags = Garbage
    /\ io_ptr = Uninit
    /\ disk \in Superblocks
    /\ fs = NoFs
    /\ fsOpen = FALSE
    /\ retval = 0
    /\ engineTarget = NoValue
    /\ engineCallback = FALSE
    /\ log = << >>
    /\ reported = << >>
    /\ exitCode = Running
    /\ ProgressInit

\* main.c:184-192
ParseSize ==
    /\ pc = "parse_size"
    /\ UNCHANGED pvars
    /\ IF hasSize
       THEN IF sizeArg = BadSize
            THEN /\ reported' = Append(reported, "BadSize")
                 /\ Exit(1)
                 /\ UNCHANGED new_size
            ELSE /\ new_size' = sizeArg
                 /\ pc' = "check_mount"
                 /\ UNCHANGED << reported, exitCode >>
       ELSE /\ pc' = "check_mount"
            /\ UNCHANGED << new_size, reported, exitCode >>
    /\ UNCHANGED << force, flush, flags, hasSize, sizeArg, max_size,
                    mount_retval, mount_flags, io_ptr, disk, fs, fsOpen, retval,
                    engineTarget, engineCallback, log >>

\* main.c:196 and check_mount, main.c:91-109
CheckMount ==
    /\ pc = "check_mount"
    /\ UNCHANGED pvars
    /\ log' = Append(log, "check_if_mounted")
    /\ \E r \in {0, 1} :
         /\ mount_retval' = r
         /\ IF r # 0
            THEN /\ mount_flags' = Garbage
                 /\ reported' = Append(reported, "MountProbeFailed")
                 /\ pc' = "flush"
                 /\ UNCHANGED exitCode
            ELSE \E mf \in SUBSET MountFlagBits :
                   /\ mount_flags' = mf
                   /\ IF ~IsMounted(mf)
                      THEN /\ pc' = "flush"
                           /\ UNCHANGED << reported, exitCode >>
                      ELSE /\ reported' = Append(reported, "DeviceMounted")
                           /\ Exit(1)
    /\ UNCHANGED << force, flush, flags, hasSize, sizeArg, new_size, max_size,
                    io_ptr, disk, fs, fsOpen, retval, engineTarget,
                    engineCallback >>

\* main.c:198-217; the build either has BLKFLSBUF or not
Flush ==
    /\ pc = "flush"
    /\ UNCHANGED pvars
    /\ IF flush
       THEN \E r \in {"ok", "open_failed", "ioctl_failed", "unsupported"} :
              /\ log' = Append(log, "flush_" \o r)
              /\ IF ~FlushFails(r)
                 THEN /\ pc' = "open"
                      /\ UNCHANGED << reported, exitCode >>
                 ELSE /\ reported' = Append(reported, "FlushFailed")
                      /\ Exit(1)
       ELSE /\ pc' = "open"
            /\ UNCHANGED << log, reported, exitCode >>
    /\ UNCHANGED << force, flags, hasSize, sizeArg, new_size, max_size,
                    mount_retval, mount_flags, io_ptr, disk, fs, fsOpen, retval,
                    engineTarget, engineCallback >>
    /\ UNCHANGED flush

\* main.c:219-232
Open ==
    /\ pc = "open"
    /\ UNCHANGED pvars
    /\ io_ptr' = IF RESIZE_DEBUG_IO \in flags THEN "test_io_manager"
                                             ELSE "unix_io_manager"
    /\ log' = Append(log, "ext2fs_open")
    /\ \/ /\ retval' = 1
          /\ reported' = Append(reported, "OpenFailed")
          /\ Exit(1)
          /\ UNCHANGED << fs, fsOpen >>
       \/ /\ retval' = 0
          /\ fs' = disk
          /\ fsOpen' = TRUE
          /\ pc' = "features"
          /\ UNCHANGED << reported, exitCode >>
    /\ UNCHANGED << force, flush, flags, hasSize, sizeArg, new_size, max_size,
                    mount_retval, mount_flags, disk, engineTarget,
                    engineCallback >>

\* main.c:237-243
FeatureGate ==
    /\ pc = "features"
    /\ UNCHANGED pvars
    /\ log' = Append(log, "gate_feature")
    /\ IF FeatureGateFails(fs)
       THEN /\ reported' = Append(reported, "UnsupportedFeature")
            /\ Exit(1)
       ELSE /\ pc' = "device_size"
            /\ UNCHANGED << reported, exitCode >>
    /\ UNCHANGED << force, flush, flags, hasSize, sizeArg, new_size, max_size,
                    mount_retval, mount_flags, io_ptr, disk, fs, fsOpen, retval,
                    engineTarget, engineCallback >>

\* main.c:250-256
DeviceSize ==
    /\ pc = "device_size"
    /\ UNCHANGED pvars
    /\ log' = Append(log, "get_device_size")
    /\ \/ /\ retval' = 1
          /\ reported' = Append(reported, "SizeProbeFailed")
          /\ Exit(1)
          /\ UNCHANGED max_size
       \/ \E m \in 1..MaxBlocks :
            /\ retval' = 0
            /\ max_size' = m
            /\ pc' = "capacity"
            /\ UNCHANGED << reported, exitCode >>
    /\ UNCHANGED << force, flush, flags, hasSize, sizeArg, new_size,
                    mount_retval, mount_flags, io_ptr, disk, fs, fsOpen,
                    engineTarget, engineCallback >>

\* main.c:257-265
CapacityGate ==
    /\ pc = "capacity"
    /\ UNCHANGED pvars
    /\ log' = Append(log, "gate_capacity")
    /\ new_size' = ResolveSize(new_size, max_size)
    /\ IF CapacityGateFails(force, new_size', max_size)
       THEN /\ reported' = Append(reported, "SizeExceedsDevice")
            /\ Exit(1)
       ELSE /\ pc' = "noop"
            /\ UNCHANGED << reported, exitCode >>
    /\ UNCHANGED << force, flush, flags, hasSize, sizeArg, max_size,
                    mount_retval, mount_flags, io_ptr, disk, fs, fsOpen, retval,
                    engineTarget, engineCallback >>

\* main.c:266-270
NoOpCheck ==
    /\ pc = "noop"
    /\ UNCHANGED pvars
    /\ log' = Append(log, "gate_noop")
    /\ IF IsNoOp(new_size, fs)
       THEN /\ reported' = Append(reported, "NothingToDo")
            /\ Exit(0)
       ELSE /\ pc' = "consistency"
            /\ UNCHANGED << reported, exitCode >>
    /\ UNCHANGED << force, flush, flags, hasSize, sizeArg, new_size, max_size,
                    mount_retval, mount_flags, io_ptr, disk, fs, fsOpen, retval,
                    engineTarget, engineCallback >>

\* main.c:271-275
ConsistencyGate ==
    /\ pc = "consistency"
    /\ UNCHANGED pvars
    /\ log' = Append(log, "gate_consistency")
    /\ IF NeedsCheck(force, fs)
       THEN /\ reported' = Append(reported, "NeedsCheck")
            /\ Exit(1)
       ELSE /\ pc' = "resize"
            /\ UNCHANGED << reported, exitCode >>
    /\ UNCHANGED << force, flush, flags, hasSize, sizeArg, new_size, max_size,
                    mount_retval, mount_flags, io_ptr, disk, fs, fsOpen, retval,
                    engineTarget, engineCallback >>

\* main.c:276-283
Resize ==
    /\ pc = "resize"
    /\ UNCHANGED pvars
    /\ engineTarget' = new_size
    /\ engineCallback' = UsesCallback(flags)
    /\ \E r \in {0, 1} :
         /\ retval' = r
         /\ IF r # 0
            THEN /\ reported' = Append(reported, "EngineFailed")
                 /\ log' = log \o << "resize_fs", "ext2fs_close" >>
                 /\ fsOpen' = FALSE
            ELSE /\ log' = Append(log, "resize_fs")
                 /\ UNCHANGED << reported, fsOpen >>
    /\ pc' = "report"
    /\ UNCHANGED << force, flush, flags, hasSize, sizeArg, new_size, max_size,
                    mount_retval, mount_flags, io_ptr, disk, fs, exitCode >>

\* main.c:284-286
Report ==
    /\ pc = "report"
    /\ UNCHANGED pvars
    /\ reported' = Append(reported, "NowNBlocksLong")
    /\ Exit(0)
    /\ UNCHANGED << force, flush, flags, hasSize, sizeArg, new_size, max_size,
                    mount_retval, mount_flags, io_ptr, disk, fs, fsOpen, retval,
                    engineTarget, engineCallback, log >>

Next ==
    \/ ParseSize
    \/ CheckMount
    \/ Flush
    \/ Open
    \/ FeatureGate
    \/ DeviceSize
    \/ CapacityGate
    \/ NoOpCheck
    \/ ConsistencyGate
    \/ Resize
    \/ Report

Spec == Init /\ [][Next]_vars

TypeOK ==
    /\ pc \in {"parse_size", "check_mount", "flush", "open", "features",
               "device_size", "capacity", "noop", "consistency", "resize",
               "report", "done"}
    /\ exitCode \in {Running, 0, 1}
    /\ (pc = "done") = (exitCode # Running)
\* ---- resize_progress_func as the engine's callback ------------------------

\* main.c:53-72
LabelOf(pass) ==
    CASE pass = E2_RSZ_EXTEND_ITABLE_PASS -> "Extending the inode table"
      [] pass = E2_RSZ_BLOCK_RELOC_PASS -> "Relocating blocks"
      [] pass = E2_RSZ_INODE_SCAN_PASS -> "Scanning inode table"
      [] pass = E2_RSZ_INODE_REF_UPD_PASS -> "Updating inode references"
      [] pass = E2_RSZ_MOVE_ITABLE_PASS -> "Moving inode table"
      [] OTHER -> "Unknown pass?!?"

\* the calls resize_progress_func makes on the indicator library
InitOp(id, label, max, ok) ==
    [ op |-> "init", id |-> id, arg |-> max, label |-> label, ok |-> ok ]

UpdateOp(id, cur) ==
    [ op |-> "update", id |-> id, arg |-> cur, label |-> "", ok |-> TRUE ]

CloseOp(id) ==
    [ op |-> "close", id |-> id, arg |-> 0, label |-> "", ok |-> TRUE ]

NothingToReport_Never(max) == FALSE

\* main.c:47
NothingToReport(max) == max = 0

\* main.c:49
StartsPass(cur) == cur = 0

StaleClose_Skipped(p) == << >>

\* main.c:50-51
StaleClose(p) == IF p # 0 THEN << CloseOp(p) >> ELSE << >>

AfterInit_KeepsPointer(initRet, created) == created

\* main.c:74-77: progress after ext2fs_progress_init
AfterInit(initRet, created) == IF initRet # 0 THEN 0 ELSE created

PassComplete_Never(cur, max) == FALSE

\* main.c:82
PassComplete(cur, max) == cur >= max

\* main.c:39-89.  pd is rfs->prog_data on entry, initRet what
\* ext2fs_progress_init returns if it is called, created what it stores in
\* progress.  The result is rfs->prog_data on return, the calls made on
\* the indicator library in order, and the return value.
resize_progress_func(pd, pass, cur, max, initRet, created) ==
    IF NothingToReport(max)
    THEN [ prog_data |-> pd, ops |-> << >>, ret |-> 0 ]
    ELSE LET ops1 == IF StartsPass(cur)
                     THEN StaleClose(pd)
                          \o << InitOp(created, LabelOf(pass), max,
                                       initRet = 0) >>
                     ELSE << >>
             progress1 == IF StartsPass(cur) THEN AfterInit(initRet, created)
                                             ELSE pd
             ops2 == IF progress1 # 0
                     THEN ops1 \o << UpdateOp(progress1, cur) >>
                     ELSE ops1
             ops3 == IF PassComplete(cur, max) /\ progress1 # 0
                     THEN ops2 \o << CloseOp(progress1) >>
                     ELSE ops2
         IN  [ prog_data |-> IF PassComplete(cur, max) THEN 0 ELSE progress1,
               ops |-> ops3,
               ret |-> 0 ]

\* the indicator library: what one call does to the indicators
IsOpen(ms, id) == id \in DOMAIN ms /\ ms[id].open

ApplyOp(st, pass, o) ==
    CASE o.op = "init" ->
           IF o.ok
           THEN [ st EXCEPT !.meters =
                    Append(@, [ pass |-> pass, label |-> o.label,
                                open |-> TRUE ]) ]
           ELSE st
      [] o.op = "update" ->
           IF IsOpen(st.meters, o.id)
           THEN [ st EXCEPT !.updates = @ + 1 ]
           ELSE [ st EXCEPT !.updates = @ + 1,
                            !.misuse = @ \cup {"update_not_open"} ]
      [] o.op = "close" ->
           IF IsOpen(st.meters, o.id)
           THEN [ st EXCEPT !.closes = @ + 1,
                            !.meters[o.id].open = FALSE ]
           ELSE [ st EXCEPT !.closes = @ + 1,
                            !.misuse = @ \cup {"close_not_open"} ]

RECURSIVE ApplyOps(_, _, _)
ApplyOps(st, pass, ops) ==
    IF ops = << >> THEN st
    ELSE ApplyOps(ApplyOp(st, pass, Head(ops)), pass, Tail(ops))

\* one callback from the engine
Call(pass, cur, max, initRet) ==
    LET created == Len(meters) + 1
        res == resize_progress_func(prog_data, pass, cur, max, initRet,
                                    created)
        st == ApplyOps([ meters |-> meters, misuse |-> misuse,
                         closes |-> closes, updates |-> updates ],
                       pass, res.ops)
        initCalled == \E i \in DOMAIN res.ops : res.ops[i].op = "init"
    IN  /\ prog_data' = res.prog_data
        /\ meters' = st.meters
        /\ misuse' = st.misuse
        /\ closes' = st.closes
        /\ updates' = st.updates
        /\ last' = [ pass |-> pass, cur |-> cur, max |-> max,
                     before |-> prog_data, ops |-> res.ops, ret |-> res.ret,
                     initFailed |-> initCalled /\ initRet # 0 ]
        /\ degraded' = IF initCalled THEN initRet # 0 ELSE degraded
        /\ nEvents' = nEvents + 1

\* main has reached resize_fs with -p: the state the callbacks run in
InEngine ==
    /\ pc = "resize"
    /\ force = FALSE
    /\ flush = FALSE
    /\ flags = {RESIZE_PERCENT_COMPLETE}
    /\ hasSize = FALSE
    /\ sizeArg = NoValue
    /\ new_size = 2
    /\ max_size = 2
    /\ mount_retval = 0
    /\ mount_flags = {}
    /\ io_ptr = "unix_io_manager"
    /\ disk = [ s_blocks_count |-> 1, s_lastcheck |-> 0, s_mtime |-> 0,
                s_feature_compat |-> {}, s_feature_incompat |-> {},
                s_feature_ro_compat |-> {} ]
    /\ fs = disk
    /\ fsOpen = TRUE
    /\ retval = 0
    /\ engineTarget = 2
    /\ engineCallback = TRUE
    /\ log = << "check_if_mounted", "ext2fs_open", "gate_feature",
                "get_device_size", "gate_capacity", "gate_noop",
                "gate_consistency" >>
    /\ reported = << >>
    /\ exitCode = Running

ProgressSpecInit == InEngine /\ ProgressInit

\* the engine sends any event: any pass, any cur, any max
ProgressEvent ==
    /\ nEvents < MaxEvents
    /\ \E pass \in PassIds, cur \in Counts, max \in Counts, initRet \in {0, 1} :
         Call(pass, cur, max, initRet)
    /\ UNCHANGED script
    /\ UNCHANGED mainvars

ProgressNext == ProgressEvent

SpecProgress == ProgressSpecInit /\ [][ProgressNext]_vars

\* the engine sends its events pass by pass: (pass, 0, max) with max > 0,
\* then events with 0 < cur < max, then one event with cur >= max
Ok(b) == IF b THEN 1 ELSE 0

BeginPass ==
    /\ script.phase = "idle"
    /\ nEvents < MaxEvents
    /\ \E pass \in PassIds, max \in 1..MaxCount, initRet \in {0, 1} :
         /\ Call(pass, 0, max, initRet)
         /\ script' = [ script EXCEPT !.phase = "in", !.pass = pass,
                                      !.max = max, !.ok = (initRet = 0),
                                      !.okEvents = @ + Ok(initRet = 0) ]
    /\ UNCHANGED mainvars

MidEvent ==
    /\ script.phase = "in"
    /\ nEvents < MaxEvents
    /\ \E cur \in 1..(script.max - 1) :
         /\ Call(script.pass, cur, script.max, 0)
         /\ script' = [ script EXCEPT !.mids = @ + 1,
                                      !.okEvents = @ + Ok(script.ok) ]
    /\ UNCHANGED mainvars

EndPass ==
    /\ script.phase = "in"
    /\ nEvents < MaxEvents
    /\ \E cur \in script.max..MaxCount :
         /\ Call(script.pass, cur, script.max, 0)
         /\ script' = [ script EXCEPT !.phase = "idle",
                                      !.passes = @ + 1,
                                      !.okPasses = @ + Ok(script.ok),
                                      !.okEvents = @ + Ok(script.ok) ]
    /\ UNCHANGED mainvars

PassesNext ==
    \/ BeginPass
    \/ MidEvent
    \/ EndPass

SpecPasses == ProgressSpecInit /\ [][PassesNext]_vars

ProgressTypeOK ==
    /\ prog_data \in 0..MaxEvents
    /\ closes \in 0..MaxEvents
    /\ updates \in 0..MaxEvents
    /\ nEvents \in 0..MaxEvents
    /\ Len(meters) <= nEvents

\* ---- vocabulary of the properties ---------------------------------------

Done == pc = "done"

Happened(e) == \E i \in DOMAIN log : log[i] = e

Count(e) == Cardinality({ i \in DOMAIN log : log[i] = e })

EngineCalls == Count("resize_fs")

\* every occurrence of a precedes every occurrence of b in the log
Precedes(a, b) ==
    \A i, j \in DOMAIN log : (log[i] = a /\ log[j] = b) => i < j

Reported(k) == \E i \in DOMAIN reported : reported[i] = k

LastReport == IF reported = << >> THEN "none" ELSE reported[Len(reported)]

Gates == {"check_if_mounted", "gate_feature", "gate_capacity", "gate_noop",
          "gate_consistency"}

\* the mount probe answered, and its answer has the mounted bit
ProbeSaysMounted == mount_retval = 0 /\ "MOUNTED" \in mount_flags

ProbeFailed == Happened("check_if_mounted") /\ mount_retval # 0

\* ext2fs_get_device_size has answered: max_size is the probed capacity
CapacityProbed == Happened("get_device_size") /\ ~Reported("SizeProbeFailed")

\* a size argument was given and it reads as the number v
Requested(v) == hasSize /\ sizeArg = v

StaleCheck == disk.s_lastcheck < disk.s_mtime

\* ---- C1 -------------------------------------------------------------------
\* C1: resize_fs is invoked at most once, and only after every gate has been
\* evaluated and has passed: the mount probe did not report the device as
\* mounted, the feature gate passed, force is set or the target is within
\* the device capacity, the target differs from the current block count,
\* and force is set or last-check >= last-modify.  No gate is evaluated
\* after the engine has been invoked.
C1_EngineOnlyAfterAllGates ==
    /\ EngineCalls <= 1
    /\ EngineCalls = 1 =>
         /\ \A g \in Gates : Count(g) = 1 /\ Precedes(g, "resize_fs")
         /\ ~ProbeSaysMounted
         /\ ~Reported("DeviceMounted")
         /\ ~Reported("UnsupportedFeature")
         /\ force \/ engineTarget <= max_size
         /\ engineTarget # fs.s_blocks_count
         /\ force \/ fs.s_lastcheck >= fs.s_mtime
         /\ ~Reported("SizeExceedsDevice")
         /\ ~Reported("NothingToDo")
         /\ ~Reported("NeedsCheck")

C1_Witness ==
    /\ Done
    /\ EngineCalls = 1
    /\ ~force
    /\ engineTarget = 2
    /\ fs.s_blocks_count = 1

\* ---- C2 -------------------------------------------------------------------
\* C2: once the mount probe has reported the device as mounted, the run is
\* over with exit code 1 and the DeviceMounted diagnostic, and ext2fs_open
\* has not been called, whatever the flags and the requested size are.
C2_MountedFailsBeforeOpen ==
    ProbeSaysMounted =>
        /\ Done
        /\ exitCode = 1
        /\ LastReport = "DeviceMounted"
        /\ ~Happened("ext2fs_open")
        /\ ~fsOpen
        /\ EngineCalls = 0

C2_Witness ==
    /\ ProbeSaysMounted
    /\ Done
    /\ force
    /\ flush
    /\ flags = ResizeFlagBits
    /\ Requested(2)

\* ---- C3 -------------------------------------------------------------------
\* C3: when the mount probe returns an error, the run is terminated as a
\* failure: the device is not flushed, the filesystem is not opened, the
\* engine is never invoked, and the exit code is 1.
C3_ProbeErrorIsFatal ==
    ProbeFailed =>
        /\ ~Happened("ext2fs_open")
        /\ ~Happened("flush_ok")
        /\ EngineCalls = 0
        /\ Done => exitCode = 1

\* ---- C4 -------------------------------------------------------------------
\* C4: a run that reported an engine failure, or a validation, size probe,
\* open or flush failure, ends with exit code 1; a run ends with exit code
\* 0 only if the engine was invoked and returned success or the run was
\* recognized as a no-op.  (The mount probe's error is C3's subject and is
\* left out of the failures here.)
C4_FailureKinds ==
    {"BadSize", "DeviceMounted", "FlushFailed", "OpenFailed",
     "UnsupportedFeature", "SizeProbeFailed", "SizeExceedsDevice",
     "NeedsCheck", "EngineFailed"}

C4_ExitCodes ==
    Done =>
        /\ (\E k \in C4_FailureKinds : Reported(k)) => exitCode = 1
        /\ exitCode = 0 =>
             \/ EngineCalls = 1 /\ retval = 0
             \/ Reported("NothingToDo")

\* ---- C5 -------------------------------------------------------------------
\* C5: once the feature gate has been evaluated, the run has failed with
\* UnsupportedFeature (exit 1, engine never invoked) exactly when the
\* compatible or the read-only-compatible feature word has a bit outside
\* its supported set.
C5_HasUnsupportedBit ==
    \/ fs.s_feature_compat \ EXT2_LIB_FEATURE_COMPAT_SUPP # {}
    \/ fs.s_feature_ro_compat \ EXT2_LIB_FEATURE_RO_COMPAT_SUPP # {}

C5_FeatureGate ==
    Happened("gate_feature") =>
        IF C5_HasUnsupportedBit
        THEN /\ Done
             /\ exitCode = 1
             /\ LastReport = "UnsupportedFeature"
             /\ EngineCalls = 0
        ELSE ~Reported("UnsupportedFeature")
\* ---- C6 -------------------------------------------------------------------
\* C6 as stated: every run whose requested size equals the filesystem's
\* current block count ends with exit code 0 and no engine invocation.
C6_Original ==
    (Done /\ Requested(disk.s_blocks_count)) =>
        exitCode = 0 /\ EngineCalls = 0

C6_EarlierFailures ==
    {"DeviceMounted", "FlushFailed", "OpenFailed", "UnsupportedFeature",
     "SizeProbeFailed", "SizeExceedsDevice"}

\* C6 as amended: a run whose requested size equals the filesystem's
\* current block count never invokes the engine and never evaluates the
\* consistency gate; it ends with exit code 0 (nothing to do) when it
\* reaches the size comparison, and with exit code 1 exactly when a step
\* before the comparison failed (device mounted, flush, open, feature
\* gate, capacity probe or capacity gate).
C6_NoOpWhenReached ==
    Requested(disk.s_blocks_count) =>
        /\ EngineCalls = 0
        /\ ~Happened("gate_consistency")
        /\ Done =>
             /\ Happened("gate_noop") <=> exitCode = 0
             /\ exitCode = 0 <=> LastReport = "NothingToDo"
             /\ exitCode = 1 <=> LastReport \in C6_EarlierFailures

C6_Witness ==
    /\ Requested(disk.s_blocks_count)
    /\ disk.s_blocks_count = 2
    /\ Done
    /\ exitCode = 0
    /\ Happened("gate_noop")
    /\ StaleCheck
    /\ ~force

\* ---- C7 -------------------------------------------------------------------
\* C7 as stated: a run on a filesystem whose last-check timestamp is older
\* than its last-modify timestamp, with force unset, ends with exit code 1
\* and without an engine invocation; with force set or not, the
\* consistency gate is decided before any engine invocation.
C7_Original ==
    StaleCheck =>
        /\ Precedes("gate_consistency", "resize_fs")
        /\ EngineCalls = 1 => Happened("gate_consistency")
        /\ ~force =>
             /\ EngineCalls = 0
             /\ Done => exitCode = 1

\* C7 as amended: on such a filesystem with force unset the engine is never
\* invoked, and the run ends with exit code 1 unless its target equals the
\* current block count, in which case it ends as a no-op with exit code 0
\* before the consistency gate is evaluated; a run that does evaluate the
\* gate with force unset ends with NeedsCheck and exit code 1.  With force
\* set or not, the gate is decided before any engine invocation.
C7_NeedsCheckUnlessForceOrNoOp ==
    StaleCheck =>
        /\ Precedes("gate_consistency", "resize_fs")
        /\ EngineCalls = 1 => Happened("gate_consistency")
        /\ ~force =>
             /\ EngineCalls = 0
             /\ Done =>
                  \/ exitCode = 1
                  \/ /\ exitCode = 0
                     /\ LastReport = "NothingToDo"
                     /\ new_size = fs.s_blocks_count
                     /\ ~Happened("gate_consistency")
             /\ (Done /\ Happened("gate_consistency")) =>
                  exitCode = 1 /\ LastReport = "NeedsCheck"

C7_Witness ==
    /\ StaleCheck
    /\ ~force
    /\ Done
    /\ Happened("gate_consistency")
    /\ LastReport = "NeedsCheck"
    /\ exitCode = 1

\* ---- C8 -------------------------------------------------------------------
\* C8: when the requested size exceeds the probed device capacity and force
\* is not set, the engine is never invoked and the run ends at the capacity
\* gate with SizeExceedsDevice and exit code 1.
C8_SizeExceedsDevice ==
    (CapacityProbed /\ hasSize /\ sizeArg > max_size /\ ~force) =>
        /\ EngineCalls = 0
        /\ pc \in {"capacity", "done"}
        /\ Done =>
             /\ exitCode = 1
             /\ LastReport = "SizeExceedsDevice"
             /\ ~Happened("gate_noop")

C8_Witness ==
    /\ CapacityProbed
    /\ Requested(3)
    /\ max_size = 2
    /\ fs.s_blocks_count = 1
    /\ ~force
    /\ Done
    /\ LastReport = "SizeExceedsDevice"

\* ---- C9 -------------------------------------------------------------------
\* C9 as stated: a run that probed the device capacity, with force set and a
\* requested size above that capacity, ends having invoked the engine with
\* exactly the requested size.
C9_Original ==
    (Done /\ CapacityProbed /\ hasSize /\ sizeArg > max_size /\ force) =>
        /\ ~Reported("SizeExceedsDevice")
        /\ EngineCalls = 1
        /\ engineTarget = sizeArg

\* C9 as amended: with force set and a requested size above the probed
\* capacity the capacity gate passes, and the run invokes the engine with
\* exactly the requested size unless that size equals the current block
\* count, in which case it ends as a no-op (exit code 0) without invoking
\* the engine.
C9_ForcedOversize ==
    (Done /\ CapacityProbed /\ hasSize /\ sizeArg > max_size /\ force) =>
        /\ ~Reported("SizeExceedsDevice")
        /\ IF sizeArg = fs.s_blocks_count
           THEN /\ EngineCalls = 0
                /\ exitCode = 0
                /\ LastReport = "NothingToDo"
           ELSE /\ EngineCalls = 1
                /\ engineTarget = sizeArg

C9_Witness ==
    /\ Done
    /\ CapacityProbed
    /\ force
    /\ Requested(3)
    /\ max_size = 2
    /\ fs.s_blocks_count = 1
    /\ StaleCheck
    /\ EngineCalls = 1
    /\ engineTarget = 3

\* ---- C10 ------------------------------------------------------------------
\* C10: whenever the engine is invoked, its target is the size argument if
\* one was given (whatever its value, 0 included), and the probed device
\* capacity only when no size argument was given.
C10_TargetIsRequestedOrCapacity ==
    EngineCalls = 1 =>
        engineTarget = (IF hasSize THEN sizeArg ELSE max_size)
\* ---- C11 ------------------------------------------------------------------
\* C11: force opts out of the capacity and consistency gates only.  With
\* force set, a device the mount probe reports as mounted, and a filesystem
\* whose compatible or read-only-compatible feature word has an unsupported
\* bit, still end the run with exit code 1 and without an engine
\* invocation, as they do with force unset.
C11_ForceKeepsMountAndFeatureGates ==
    force =>
        /\ ProbeSaysMounted =>
             Done /\ exitCode = 1 /\ EngineCalls = 0
        /\ (Happened("gate_feature") /\ C5_HasUnsupportedBit) =>
             Done /\ exitCode = 1 /\ EngineCalls = 0

\* ---- C12 ------------------------------------------------------------------
\* C12: when -F is given, the engine is invoked only after the flush has
\* completed successfully; a flush that fails (the open for flushing fails,
\* the ioctl fails, or BLKFLSBUF is not supported) ends the run with exit
\* code 1, before ext2fs_open and without an engine invocation.
C12_FlushFailureSeen ==
    \/ Happened("flush_open_failed")
    \/ Happened("flush_ioctl_failed")
    \/ Happened("flush_unsupported")

C12_FlushBeforeEngine ==
    /\ (flush /\ EngineCalls > 0) =>
         /\ Count("flush_ok") = 1
         /\ Precedes("flush_ok", "resize_fs")
         /\ Precedes("flush_ok", "ext2fs_open")
    /\ C12_FlushFailureSeen =>
         /\ Done
         /\ exitCode = 1
         /\ LastReport = "FlushFailed"
         /\ EngineCalls = 0
         /\ ~Happened("ext2fs_open")
         /\ ~Happened("flush_ok")

C12_Witness ==
    /\ flush
    /\ Done
    /\ EngineCalls = 1
    /\ Happened("flush_ok")
    /\ retval = 0

\* ---- C16 ------------------------------------------------------------------
\* C16: no failing run ends with the filesystem handle still open: a run
\* that fails at the feature gate, the capacity probe, the capacity gate or
\* the consistency gate, or whose engine fails, has closed the handle when
\* it ends.
C16_FailuresAfterOpen ==
    {"UnsupportedFeature", "SizeProbeFailed", "SizeExceedsDevice",
     "NeedsCheck", "EngineFailed"}

C16_HandleClosedOnFailure ==
    (Done /\ \E k \in C16_FailuresAfterOpen : Reported(k)) => ~fsOpen

\* ---- C19 ------------------------------------------------------------------
\* C19: the report of the new size is printed only in runs where the engine
\* was invoked and returned success, never after an engine failure.
C19_SuccessReportOnlyOnSuccess ==
    Reported("NowNBlocksLong") =>
        /\ EngineCalls = 1
        /\ retval = 0
        /\ ~Reported("EngineFailed")

\* ---- C20 ------------------------------------------------------------------
\* C20 as stated: the no-op exit is taken before the mount, feature and
\* consistency gates are evaluated, and a run whose requested size equals
\* the current block count ends with exit code 0 whatever the mount state,
\* the feature words and the timestamps are.
C20_Original ==
    /\ Reported("NothingToDo") =>
         /\ ~Happened("check_if_mounted")
         /\ ~Happened("gate_feature")
         /\ ~Happened("gate_consistency")
    /\ (Done /\ Requested(disk.s_blocks_count)) => exitCode = 0

\* C20 as amended: the no-op exit is taken after the mount probe, the
\* feature gate and the capacity gate and before the consistency gate only:
\* a run that reaches the size comparison with a target equal to the
\* current block count ends there with exit code 0 whatever the
\* last-check and last-modify timestamps and the force flag are; the mount
\* probe, the feature gate and the capacity gate have been evaluated by
\* then and have not failed.
C20_NoOpBeforeConsistencyOnly ==
    /\ (Happened("gate_noop") /\ new_size = fs.s_blocks_count) =>
         /\ Done
         /\ exitCode = 0
         /\ LastReport = "NothingToDo"
         /\ EngineCalls = 0
    /\ Reported("NothingToDo") =>
         /\ Done
         /\ exitCode = 0
         /\ new_size = fs.s_blocks_count
         /\ Precedes("check_if_mounted", "gate_noop")
         /\ Precedes("gate_feature", "gate_noop")
         /\ Precedes("gate_capacity", "gate_noop")
         /\ Count("check_if_mounted") = 1
         /\ Count("gate_feature") = 1
         /\ Count("gate_capacity") = 1
         /\ ~Happened("gate_consistency")
         /\ ~ProbeSaysMounted
         /\ ~Reported("UnsupportedFeature")
         /\ ~Reported("SizeExceedsDevice")

C20_Witness ==
    /\ Reported("NothingToDo")
    /\ Done
    /\ ~hasSize
    /\ new_size = 2
    /\ StaleCheck
    /\ ~force
    /\ Happened("check_if_mounted")
    /\ Happened("gate_feature")
\* ---- vocabulary of the progress properties --------------------------------

OpenMeters == { i \in DOMAIN meters : meters[i].open }

\* the last call made a call of kind k on indicator id
LastDid(k, id) ==
    \E i \in DOMAIN last.ops : last.ops[i].op = k /\ last.ops[i].id = id

LastDidAny(k) == \E i \in DOMAIN last.ops : last.ops[i].op = k

\* ---- C13 ------------------------------------------------------------------
\* C13 as stated (every indicator creation succeeding): after a sequence of
\* complete passes the number of opens and the number of closes equal the
\* number of passes, the number of updates equals the number of
\* intermediate events (0 < cur < max), and no indicator is open.
C13_Original ==
    (script.phase = "idle" /\ script.okPasses = script.passes) =>
        /\ Len(meters) = script.passes
        /\ closes = script.passes
        /\ updates = script.mids
        /\ prog_data = 0
        /\ OpenMeters = {}

\* C13 as amended: a pass whose indicator creation succeeds gets exactly one
\* open and exactly one close, and exactly one update for each of its
\* events, the first (cur = 0) and the last (cur >= max) included; a pass
\* whose indicator creation fails gets no open, no update and no close;
\* between passes no indicator is open and prog_data is null.
C13_PassRoundTrip ==
    /\ Len(meters) = script.okPasses
                     + (IF script.phase = "in" /\ script.ok THEN 1 ELSE 0)
    /\ closes = script.okPasses
    /\ updates = script.okEvents
    /\ misuse = {}
    /\ script.phase = "idle" => prog_data = 0 /\ OpenMeters = {}
    /\ script.phase = "in" =>
         /\ prog_data = (IF script.ok THEN Len(meters) ELSE 0)
         /\ OpenMeters = (IF script.ok THEN {Len(meters)} ELSE {})
    /\ (nEvents > 0 /\ 0 < last.cur /\ last.cur < last.max) =>
         last.ops = (IF script.ok
                     THEN << [ op |-> "update", id |-> prog_data,
                               arg |-> last.cur, label |-> "", ok |-> TRUE ] >>
                     ELSE << >>)

C13_Witness ==
    /\ script.phase = "idle"
    /\ script.passes = 2
    /\ script.okPasses = 2
    /\ script.mids = 1
    /\ nEvents = 5
    /\ Len(meters) = 2
    /\ meters[1].pass # meters[2].pass
    /\ closes = 2
    /\ updates = 5
    /\ prog_data = 0

\* ---- C14 ------------------------------------------------------------------
\* C14: resize_progress_func returns 0 for every event, whatever the pass
\* identifier (an unrecognized one gets the unknown-pass label), cur, max
\* and the state it is called in; when the creation of a pass's indicator
\* fails, prog_data is cleared, and every later event of that pass makes no
\* update and no close and still returns 0.
C14_NeverFails ==
    nEvents > 0 =>
        /\ last.ret = 0
        /\ last.initFailed => prog_data = 0 /\ ~LastDidAny("update")
        /\ \A i \in DOMAIN last.ops :
             (last.ops[i].op = "init" /\ last.pass = UnknownPass) =>
                 last.ops[i].label = "Unknown pass?!?"
        /\ degraded =>
             /\ prog_data = 0
             /\ OpenMeters = {}
             /\ ~last.initFailed => last.ops = << >>

C14_Witness ==
    /\ nEvents > 1
    /\ degraded
    /\ ~last.initFailed
    /\ last.pass = UnknownPass
    /\ last.cur = 2
    /\ last.max = 1
    /\ last.ret = 0
    /\ last.ops = << >>

\* ---- C15 ------------------------------------------------------------------
\* C15: an event with max = 0 makes no call on any indicator and leaves
\* prog_data and every indicator as they were, whatever cur and the pass
\* identifier are, an open indicator included.
C15_MaxZeroIsNoOp ==
    [][ (nEvents' = nEvents + 1 /\ last'.max = 0) =>
           /\ last'.ops = << >>
           /\ last'.ret = 0
           /\ prog_data' = prog_data
           /\ meters' = meters
           /\ closes' = closes
           /\ updates' = updates
           /\ misuse' = misuse ]_vars

C15_Witness ==
    /\ nEvents > 1
    /\ last.max = 0
    /\ last.cur = 0
    /\ last.before # 0
    /\ prog_data = last.before
    /\ OpenMeters = {prog_data}
    /\ meters[prog_data].pass # last.pass

\* ---- C17 ------------------------------------------------------------------
\* C17 as stated: when an event (with something to report, max # 0) arrives
\* for a pass other than the one whose indicator is open, the first thing
\* the call does is close that indicator, and it does not update it.
C17_Original ==
    (nEvents > 0 /\ last.before # 0 /\ last.max # 0
       /\ meters[last.before].pass # last.pass) =>
        /\ last.ops # << >>
        /\ last.ops[1].op = "close"
        /\ last.ops[1].id = last.before
        /\ ~LastDid("update", last.before)

\* C17 as amended: an open indicator is closed first, and not updated,
\* whenever an event with cur = 0 and max # 0 arrives, whatever pass the
\* event names (the indicator's own pass included); an event with cur > 0
\* and max # 0 first updates the open indicator with its cur, whatever pass
\* it names, and an event with max = 0 leaves the indicator alone.
C17_ClosedWhenPassStarts ==
    (nEvents > 0 /\ last.before # 0) =>
        IF last.max = 0
        THEN last.ops = << >> /\ prog_data = last.before
        ELSE IF last.cur = 0
             THEN /\ last.ops[1].op = "close"
                  /\ last.ops[1].id = last.before
                  /\ ~LastDid("update", last.before)
                  /\ ~meters[last.before].open
             ELSE /\ last.ops[1].op = "update"
                  /\ last.ops[1].id = last.before
                  /\ last.ops[1].arg = last.cur

C17_Witness ==
    /\ nEvents > 1
    /\ last.before # 0
    /\ meters[last.before].pass # last.pass
    /\ last.cur = 0
    /\ last.max = 2
    /\ ~meters[last.before].open
    /\ prog_data = last.before + 1

\* ---- C18 ------------------------------------------------------------------
\* C18: over any sequence of events and creation outcomes at most one
\* indicator is open at any time, prog_data is null or points to the one
\* indicator that is open, no indicator is updated after it was closed and
\* none is closed twice.
C18_OneIndicator ==
    /\ Cardinality(OpenMeters) <= 1
    /\ prog_data # 0 => OpenMeters = {prog_data}
    /\ "update_not_open" \notin misuse
    /\ "close_not_open" \notin misuse

C18_Witness ==
    /\ Len(meters) = 3
    /\ ~meters[1].open
    /\ ~meters[2].open
    /\ meters[3].open
    /\ prog_data = 3
    /\ closes = 2
    /\ degraded = FALSE
    /\ nEvents = 5
====
